---- MODULE Spec2Model ----
(***************************************************************************)
(* A model of public-relations (src/src/main.rs): the Branch Synchronizer  *)
(* loop, the Diff Aggregator loop with its per-hunk callback, and the      *)
(* Report Renderer (generate_html / file_list_entry), as one sequential    *)
(* state machine following main().                                         *)
(*                                                                         *)
(* File names are sequences of byte values, paths are sequences of file    *)
(* names, so that the byte-wise ordering used by walkdir's                 *)
(* sort_by_file_name and the ordering of rendered path strings can both be *)
(* computed.  An f64 is modelled as a pair <<numerator, denominator>>, or   *)
(* NaN; rounding is not modelled.                                          *)
(***************************************************************************)
EXTENDS Integers, Sequences, FiniteSets, TLC

VARIABLES
    data,             \* Vec<PullRequest> parsed from the json file
    branches,         \* local branch pull-request-<number> -> its tip, or NoBranch
    remote,           \* per pull request: where the remote head branch points
    diffs,            \* per pull request: the hunks of merge-base tree vs head tree
    tree,             \* the files under the repository root (relative paths)
    repo_path,        \* file name of the repository root as the walker sees it
    run,              \* "first" or "second" invocation of the program
    pc,               \* position in main()
    idx,              \* index of the current loop into data.iter().take(100)
    hunk_i,           \* index of the next hunk handed to the diff callback
    file_line_map,    \* LineLookup of the pull request being diffed
    pr_lines_lookup,  \* HashMap<u32, LineLookup>
    rows,             \* the <li> rows of the document, in order
    written,          \* prmap.html was written by this run
    fetched,          \* history: numbers for which git fetch was invoked, in order
    decided,          \* history: numbers whose fetch-or-skip decision completed
    diffed,           \* history: numbers whose diff computation was started
    failedStep,       \* history: some step of this run returned an error to main
    walkSkipped,      \* history: directories whose walk error was dropped
    walked            \* history: generate_html has walked the tree in this run

vars == <<data, branches, remote, diffs, tree, repo_path, run, pc, idx, hunk_i,
          file_line_map, pr_lines_lookup, rows, written, fetched, decided,
          diffed, failedStep, walkSkipped, walked>>

---------------------------------------------------------------------------
(* Bounds of the model *)

\* short pull request lists have 0..MaxPRs descriptors
MaxPRs == 2
\* a diff explored in full has at most MaxHunks hunks
MaxHunks == 2
\* a working tree explored in full has at most MaxFiles files
MaxFiles == 3

(* Program constants *)

\* data.iter().take(100)
TakeLimit == 100
\* the byte '.' of s.starts_with(".")
Dot == 46
\* the byte '/' that entry.display() puts between components
Sep == 47

---------------------------------------------------------------------------
(* File names and paths *)

NameA == <<97>>
NameZ == <<122>>
NameATxt == <<97, 46, 116, 120, 116>>
NameBTxt == <<98, 46, 116, 120, 116>>
NameGit == <<46, 103, 105, 116>>
NameRepo == <<114, 101, 112, 111>>
NameDotfiles == <<46, 100, 111, 116, 102, 105, 108, 101, 115>>
NameCargoLock == <<67, 97, 114, 103, 111, 46, 108, 111, 99, 107>>

\* let ignore_files = [PathBuf::from("Cargo.lock")];
ignore_files == {<<NameCargoLock>>}

EmptyMap == [x \in {} |-> x]

MapPut(m, k, v) == [x \in (DOMAIN m) \cup {k} |-> IF x = k THEN v ELSE m[x]]

Min(a, b) == IF a < b THEN a ELSE b

\* Byte-wise lexicographic order on byte strings (Ord for OsStr / str)
BytesLess(a, b) ==
    \/ /\ Len(a) < Len(b)
       /\ \A k \in 1..Len(a) : a[k] = b[k]
    \/ \E k \in 1..Min(Len(a), Len(b)) :
          /\ a[k] < b[k]
          /\ \A m \in 1..(k - 1) : a[m] = b[m]

IsPrefix(p, q) == Len(p) <= Len(q) /\ \A k \in 1..Len(p) : p[k] = q[k]

---------------------------------------------------------------------------
(* Report Renderer: the walker of generate_html *)

\* fn is_hidden: the entry's file name starts with "."
is_hidden(name) == name # <<>> /\ name[1] = Dot

\* An entry is a directory when it is the root or some file lies below it
IsDir(t, p) == p = <<>> \/ \E q \in t : Len(q) > Len(p) /\ IsPrefix(p, q)

\* The file names directly inside directory p
Children(t, p) ==
    {q[Len(p) + 1] : q \in {r \in t : Len(r) > Len(p) /\ IsPrefix(p, r)}}

\* A faulty variant of SortByFileName: the entries of a directory in descending order
RECURSIVE SortDescending(_)
SortDescending(S) ==
    IF S = {} THEN <<>>
    ELSE LET m == CHOOSE x \in S : \A y \in S : x = y \/ BytesLess(y, x)
         IN  <<m>> \o SortDescending(S \ {m})

\* WalkDir::sort_by_file_name: the entries of one directory, ascending
RECURSIVE SortByFileName(_)
SortByFileName(S) ==
    IF S = {} THEN <<>>
    ELSE LET m == CHOOSE x \in S : \A y \in S : x = y \/ BytesLess(x, y)
         IN  <<m>> \o SortByFileName(S \ {m})

\* WalkDir's depth-first iteration under filter_entry(|e| !is_hidden(e)),
\* followed by filter_map(|entry| entry.ok()): a directory that cannot be
\* read is yielded itself, the error of reading it is dropped and nothing
\* below it is visited.
RECURSIVE WalkEntry(_, _, _)
RECURSIVE WalkChildren(_, _, _, _)
WalkEntry(t, p, unreadable) ==
    IF IsDir(t, p)
    THEN <<[path |-> p, is_dir |-> TRUE]>>
         \o (IF p \in unreadable THEN <<>>
             ELSE WalkChildren(t, p, SortByFileName(Children(t, p)), unreadable))
    ELSE <<[path |-> p, is_dir |-> FALSE]>>

WalkChildren(t, p, names, unreadable) ==
    IF names = <<>> THEN <<>>
    ELSE (IF is_hidden(Head(names)) THEN <<>>
          ELSE WalkEntry(t, Append(p, Head(names)), unreadable))
         \o WalkChildren(t, p, Tail(names), unreadable)

\* WalkDir::new(repo_path)...filter_entry(..): the root entry (depth 0) is
\* filtered like every other entry, by the file name of repo_path
Walker(root, t, unreadable) ==
    IF is_hidden(root) THEN <<>> ELSE WalkEntry(t, <<>>, unreadable)

\* if entry.file_type().is_dir() { None } else { strip_prefix(repo_path).ok() }
KeepFile(entry) == ~entry.is_dir

---------------------------------------------------------------------------
(* Report Renderer: file_list_entry *)

NaN == <<0, 0>>

\* in_pr_count as f64 / total_pr_count as f64
F64Div(a, b) == IF b = 0 THEN NaN ELSE <<a, b>>

\* 1.0 - x
F64OneMinus(x) == IF x = NaN THEN NaN ELSE <<x[2] - x[1], x[2]>>

\* let total_pr_count = pr_lines_lookup.len();
total_pr_count(lookup) == Cardinality(DOMAIN lookup)

\* A faulty variant of in_pr_count: counts the pull requests that touch any file
InPrCountAnyFile(entry, lookup) ==
    Cardinality({n \in DOMAIN lookup : DOMAIN lookup[n] # {}})

\* .map(|(_, value)| value.contains_key(entry) as u32).sum()
in_pr_count(entry, lookup) ==
    Cardinality({n \in DOMAIN lookup : entry \in DOMAIN lookup[n]})

\* fn file_list_entry: the row of one file, with the fraction it is coloured by
file_list_entry(entry, lookup) ==
    [path |-> entry,
     fraction |-> F64OneMinus(F64Div(in_pr_count(entry, lookup),
                                     total_pr_count(lookup)))]

\* fn generate_html: one row per entry the walker keeps, in the walker's order
generate_html(root, t, unreadable, lookup) ==
    LET files == SelectSeq(Walker(root, t, unreadable), KeepFile)
    IN  [k \in 1..Len(files) |-> file_list_entry(files[k].path, lookup)]

---------------------------------------------------------------------------
(* Diff Aggregator: the hunk callback of diff.foreach *)

\* (start..(start + line_count)).collect()
OldLines(start, line_count) == [k \in 1..line_count |-> start + k - 1]

\* A faulty variant of HunkCallback: the ignore list is not consulted
HunkCallbackNoIgnore(map, hunk) ==
    IF hunk.old_lines # 0
    THEN LET old_lines == OldLines(hunk.old_start, hunk.old_lines)
         IN  IF hunk.path \in DOMAIN map
             THEN [map EXCEPT ![hunk.path] = @ \o old_lines]
             ELSE MapPut(map, hunk.path, old_lines)
    ELSE map

\* The closure passed as hunk callback: file_line_map after one more hunk
HunkCallback(map, hunk) ==
    IF hunk.old_lines # 0
    THEN IF hunk.path \in ignore_files
         THEN map
         ELSE LET old_lines == OldLines(hunk.old_start, hunk.old_lines)
              IN  IF hunk.path \in DOMAIN map
                  THEN [map EXCEPT ![hunk.path] = @ \o old_lines]
                  ELSE MapPut(map, hunk.path, old_lines)
    ELSE map

---------------------------------------------------------------------------
(* Commits, branches and the inputs of a run *)

\* A commit id: the commit of pull request n named rev
Oid(n, rev) == [pr |-> n, rev |-> rev]

\* repo.find_branch(..) found no local branch
NoBranch == Oid(0, "none")

\* struct PullRequest, reduced to the fields main() branches on; gh lists
\* pull requests newest first, each number once
Descriptors(len) ==
    [j \in 1..len |-> [number |-> len - j + 1,
                       head_ref_oid |-> Oid(len - j + 1, "head")]]

\* The local branch pull-request-<n> before the first run: absent, at the
\* json's headRefOid, or at an older commit
BranchStates == {"none", "head", "old"}

\* The remote head branch: still at the json's headRefOid, or pushed to since
\* the json was produced
RemoteStates == {"head", "moved"}

Hunk(path, start, lines) == [path |-> path, old_start |-> start, old_lines |-> lines]

HunkChoices ==
    {Hunk(p, s, c) : p \in {<<NameATxt>>, <<NameBTxt>>, <<NameCargoLock>>},
                     s \in {1, 10}, c \in {0, 3}}

RECURSIVE HunkLists(_)
HunkLists(k) ==
    IF k = 0 THEN {<<>>}
    ELSE LET shorter == HunkLists(k - 1)
         IN  shorter \cup {Append(hl, h) : hl \in shorter, h \in HunkChoices}

\* The diffs of the pull requests of a short list: no hunk, or one in b.txt
SmallDiffs == {<<>>, <<Hunk(<<NameBTxt>>, 10, 3)>>}

FlatTree == {<<NameATxt>>, <<NameBTxt>>}

TreeNames == {NameA, NameATxt, NameZ, NameGit}

CandidatePaths == {<<n>> : n \in TreeNames} \cup {<<d, n>> : d, n \in TreeNames}

\* No file of a tree lies below another file
WellFormedTree(t) ==
    \A p, q \in t : p # q => ~IsPrefix(p, q)

RECURSIVE Trees(_)
Trees(k) ==
    IF k = 0 THEN {{}}
    ELSE LET smaller == Trees(k - 1)
         IN  smaller \cup
             {t \in {s \cup {p} : s \in smaller, p \in CandidatePaths} :
                 WellFormedTree(t)}

\* The file name of the root entry as the walker reports it: "repo",
\* ".dotfiles", or "." (the program is given "." as repository path: a path
\* without a final component is reported whole)
RootNames == {NameRepo, NameDotfiles, <<Dot>>}

Input(len, br, rem, df, t, root) ==
    [data |-> Descriptors(len), branches |-> br, remote |-> rem, diffs |-> df,
     tree |-> t, repo_path |-> root]

\* Every short list, with every state of its branches, remotes and diffs
ShortInputs ==
    UNION {{Input(len, br, rem, df, FlatTree, NameRepo) :
               br \in [1..len -> BranchStates],
               rem \in [1..len -> RemoteStates],
               df \in [1..len -> SmallDiffs]} : len \in 0..MaxPRs}

\* One pull request, already synchronized, with every diff of up to MaxHunks hunks
DiffInputs ==
    {Input(1, [n \in 1..1 |-> "head"], [n \in 1..1 |-> "head"],
           [n \in 1..1 |-> hl], FlatTree, NameRepo) : hl \in HunkLists(MaxHunks)}

\* No pull request, with every tree of up to MaxFiles files and every root
WalkInputs ==
    {Input(0, EmptyMap, EmptyMap, EmptyMap, t, root) :
        t \in Trees(MaxFiles), root \in RootNames}

\* A list longer than the cap: no branch fetched yet, every other pull
\* request touching b.txt
LongLen == TakeLimit + 1

LongInputs ==
    {Input(LongLen, [n \in 1..LongLen |-> "none"], [n \in 1..LongLen |-> "head"],
           [n \in 1..LongLen |-> IF n % 2 = 1 THEN <<Hunk(<<NameBTxt>>, 10, 3)>>
                                 ELSE <<>>],
           FlatTree, NameRepo)}

Inputs == ShortInputs \cup DiffInputs \cup WalkInputs \cup LongInputs

\* The state main() starts a run in, the first run being run 1
Init ==
    \E inp \in Inputs :
        /\ data = inp.data
        /\ branches = [n \in DOMAIN inp.branches |->
                          IF inp.branches[n] = "none" THEN NoBranch
                          ELSE Oid(n, inp.branches[n])]
        /\ remote = [n \in DOMAIN inp.remote |-> Oid(n, inp.remote[n])]
        /\ diffs = inp.diffs
        /\ tree = inp.tree
        /\ repo_path = inp.repo_path
        /\ run = "first"
        /\ pc = "sync"
        /\ idx = 1
        /\ hunk_i = 1
        /\ file_line_map = EmptyMap
        /\ pr_lines_lookup = EmptyMap
        /\ rows = <<>>
        /\ written = FALSE
        /\ fetched = <<>>
        /\ decided = <<>>
        /\ diffed = <<>>
        /\ failedStep = FALSE
        /\ walkSkipped = {}
        /\ walked = FALSE

---------------------------------------------------------------------------
(* main(): the Branch Synchronizer *)

\* Iterator::take
Take(s, n) == SubSeq(s, 1, Min(n, Len(s)))

\* for pull_request in data.iter().take(100)   (the first loop)
SyncItems(d) == Take(d, TakeLimit)

\* A faulty variant of AggItems: the second loop without the cap
AggItemsUncapped(d) == d

\* for pr in data.iter().take(100)   (the second loop)
AggItems(d) == Take(d, TakeLimit)

\* if pr_branch_oid != target_oid
NeedsFetch(pr_branch_oid, target_oid) == pr_branch_oid # target_oid

\* A faulty variant of AfterFetch: the exit status of git fetch is not looked at
AfterFetchUnchecked(success) == "sync"

\* if !output.status.success() { bail!(..) } Ok(()), then `?` in main
AfterFetch(success) == IF success THEN "sync" ELSE "failed"

\* A faulty variant of SyncLoopDone: the first loop is left after one iteration
SyncLoopDoneEarly(i, d) == i > Min(1, Len(SyncItems(d)))

\* The first loop has no item left
SyncLoopDone(i, d) == i > Len(SyncItems(d))

\* fn fetch_pull_request_branch, and what its caller does with the result:
\* git fetch <origin> <from>:<to> leaves the branch at the remote's tip when
\* it exits with status zero, and untouched otherwise
fetch_pull_request_branch(n) ==
    \E success \in BOOLEAN :
        /\ fetched' = Append(fetched, n)
        /\ branches' = IF success THEN [branches EXCEPT ![n] = remote[n]]
                       ELSE branches
        /\ pc' = AfterFetch(success)
        /\ failedStep' = (failedStep \/ ~success)
        /\ idx' = IF pc' = "sync" THEN idx + 1 ELSE idx
        /\ decided' = IF pc' = "sync" THEN Append(decided, n) ELSE decided

\* One iteration of the first loop
SyncStep ==
    /\ pc = "sync"
    /\ ~SyncLoopDone(idx, data)
    /\ LET pull_request == SyncItems(data)[idx]
           n == pull_request.number
       IN  \/ \* the branch exists; peel_to_commit or Oid::from_str fails and
              \* `?` returns the error
              /\ branches[n] # NoBranch
              /\ pc' = "failed"
              /\ failedStep' = TRUE
              /\ UNCHANGED <<branches, idx, fetched, decided>>
           \/ \* the branch exists at the target oid: nothing to do
              /\ branches[n] # NoBranch
              /\ ~NeedsFetch(branches[n], pull_request.head_ref_oid)
              /\ idx' = idx + 1
              /\ decided' = Append(decided, n)
              /\ UNCHANGED <<branches, pc, fetched, failedStep>>
           \/ \* the branch exists at another oid
              /\ branches[n] # NoBranch
              /\ NeedsFetch(branches[n], pull_request.head_ref_oid)
              /\ fetch_pull_request_branch(n)
           \/ \* find_branch is not Ok
              /\ branches[n] = NoBranch
              /\ fetch_pull_request_branch(n)
    /\ UNCHANGED <<data, remote, diffs, tree, repo_path, run, hunk_i,
                   file_line_map, pr_lines_lookup, rows, written, diffed,
                   walkSkipped, walked>>

\* The first loop ends: println!("Calculating diffs..."), the lookup is created
SyncDone ==
    /\ pc = "sync"
    /\ SyncLoopDone(idx, data)
    /\ pc' = "agg"
    /\ idx' = 1
    /\ pr_lines_lookup' = EmptyMap
    /\ UNCHANGED <<data, branches, remote, diffs, tree, repo_path, run, hunk_i,
                   file_line_map, rows, written, fetched, decided, diffed,
                   failedStep, walkSkipped, walked>>

---------------------------------------------------------------------------
(* main(): the Diff Aggregator *)

\* Head commit and tree, base branch, merge base and its tree, and the
\* tree-to-tree diff of one pull request; each of them can fail, and `?`
\* returns the error
AggResolve ==
    /\ pc = "agg"
    /\ idx <= Len(AggItems(data))
    /\ diffed' = Append(diffed, AggItems(data)[idx].number)
    /\ \E ok \in BOOLEAN :
          IF ok
          THEN /\ pc' = "foreach"
               /\ hunk_i' = 1
               /\ file_line_map' = EmptyMap
               /\ UNCHANGED failedStep
          ELSE /\ pc' = "failed"
               /\ failedStep' = TRUE
               /\ UNCHANGED <<hunk_i, file_line_map>>
    /\ UNCHANGED <<data, branches, remote, diffs, tree, repo_path, run, idx,
                   pr_lines_lookup, rows, written, fetched, decided,
                   walkSkipped, walked>>

\* diff.foreach hands the next hunk to the callback
DiffHunk ==
    /\ pc = "foreach"
    /\ LET hunks == diffs[AggItems(data)[idx].number]
       IN  /\ hunk_i <= Len(hunks)
           /\ file_line_map' = HunkCallback(file_line_map, hunks[hunk_i])
    /\ hunk_i' = hunk_i + 1
    /\ UNCHANGED <<data, branches, remote, diffs, tree, repo_path, run, pc, idx,
                   pr_lines_lookup, rows, written, fetched, decided, diffed,
                   failedStep, walkSkipped, walked>>

\* pr_lines_lookup.insert(pr.number, file_line_map), and the next iteration
InsertLookup ==
    /\ pc = "foreach"
    /\ LET n == AggItems(data)[idx].number
       IN  /\ hunk_i > Len(diffs[n])
           /\ pr_lines_lookup' = MapPut(pr_lines_lookup, n, file_line_map)
    /\ pc' = "agg"
    /\ idx' = idx + 1
    /\ UNCHANGED <<data, branches, remote, diffs, tree, repo_path, run, hunk_i,
                   file_line_map, rows, written, fetched, decided, diffed,
                   failedStep, walkSkipped, walked>>

\* The second loop ends
AggDone ==
    /\ pc = "agg"
    /\ idx > Len(AggItems(data))
    /\ pc' = "render"
    /\ UNCHANGED <<data, branches, remote, diffs, tree, repo_path, run, idx,
                   hunk_i, file_line_map, pr_lines_lookup, rows, written,
                   fetched, decided, diffed, failedStep, walkSkipped, walked>>

---------------------------------------------------------------------------
(* main(): the Report Renderer and the write of prmap.html *)

\* The directories of the tree that the walker can come to
WalkableDirs(t) ==
    UNION {{SubSeq(q, 1, k) : k \in 1..(Len(q) - 1)} : q \in t}

\* let html = generate_html(&repo_path, &pr_lines_lookup)?;  at most one
\* directory of the tree fails to be read during the walk
GenerateHtml ==
    /\ pc = "render"
    /\ \E unreadable \in {{}} \cup {{d} : d \in WalkableDirs(tree)} :
          /\ rows' = generate_html(repo_path, tree, unreadable, pr_lines_lookup)
          /\ walkSkipped' =
                {d \in unreadable :
                    \E k \in 1..Len(Walker(repo_path, tree, unreadable)) :
                        Walker(repo_path, tree, unreadable)[k].path = d}
    /\ walked' = TRUE
    /\ pc' = "write"
    /\ UNCHANGED <<data, branches, remote, diffs, tree, repo_path, run, idx,
                   hunk_i, file_line_map, pr_lines_lookup, written, fetched,
                   decided, diffed, failedStep>>

\* std::fs::write("prmap.html", html)?; Ok(())
WriteHtml ==
    /\ pc = "write"
    /\ \E ok \in BOOLEAN :
          IF ok
          THEN /\ written' = TRUE
               /\ pc' = "done"
               /\ UNCHANGED failedStep
          ELSE /\ pc' = "failed"
               /\ failedStep' = TRUE
               /\ UNCHANGED written
    /\ UNCHANGED <<data, branches, remote, diffs, tree, repo_path, run, idx,
                   hunk_i, file_line_map, pr_lines_lookup, rows, fetched,
                   decided, diffed, walkSkipped, walked>>

\* The program is run again on the same json file, nothing having changed
\* upstream, after a run that returned Ok(())
Rerun ==
    /\ run = "first"
    /\ pc = "done"
    /\ run' = "second"
    /\ pc' = "sync"
    /\ idx' = 1
    /\ hunk_i' = 1
    /\ file_line_map' = EmptyMap
    /\ pr_lines_lookup' = EmptyMap
    /\ rows' = <<>>
    /\ written' = FALSE
    /\ fetched' = <<>>
    /\ decided' = <<>>
    /\ diffed' = <<>>
    /\ failedStep' = FALSE
    /\ walkSkipped' = {}
    /\ walked' = FALSE
    /\ UNCHANGED <<data, branches, remote, diffs, tree, repo_path>>

Next ==
    \/ SyncStep
    \/ SyncDone
    \/ AggResolve
    \/ DiffHunk
    \/ InsertLookup
    \/ AggDone
    \/ GenerateHtml
    \/ WriteHtml
    \/ Rerun

Spec == Init /\ [][Next]_vars

---------------------------------------------------------------------------
(* Reference definitions used by the properties *)

\* The first 100 descriptors of the input, and their numbers in input order
FirstHundred == SubSeq(data, 1, IF Len(data) < TakeLimit THEN Len(data) ELSE TakeLimit)

FirstNumbers == [j \in 1..Len(FirstHundred) |-> FirstHundred[j].number]

SeqRange(s) == {s[k] : k \in 1..Len(s)}

\* The old-side line numbers of the hunks of path p, in hunk order
RECURSIVE RefLines(_, _)
RefLines(hl, p) ==
    IF hl = <<>> THEN <<>>
    ELSE (IF Head(hl).path = p
          THEN [k \in 1..Head(hl).old_lines |-> Head(hl).old_start + (k - 1)]
          ELSE <<>>)
         \o RefLines(Tail(hl), p)

\* The reference TouchedLineMap of a hunk list
RefMap(hl) ==
    [p \in {hl[k].path : k \in {m \in 1..Len(hl) :
                                   /\ hl[m].old_lines > 0
                                   /\ hl[m].path # <<NameCargoLock>>}}
        |-> RefLines(hl, p)]

\* 1 - k/n over the first 100 descriptors, evaluated as the f64 expression is
\* (0/0 being NaN)
RefFraction(p) ==
    LET n == Len(FirstHundred)
        k == Cardinality({j \in 1..n : p \in DOMAIN RefMap(diffs[FirstNumbers[j]])})
    IN  IF n = 0 THEN NaN ELSE <<n - k, n>>

SameF64(x, y) ==
    IF x = NaN \/ y = NaN THEN x = NaN /\ y = NaN
    ELSE x[1] * y[2] = y[1] * x[2]

\* entry.display(): the components joined by '/'
RECURSIVE Display(_)
Display(p) ==
    IF p = <<>> THEN <<>>
    ELSE IF Len(p) = 1 THEN p[1]
    ELSE p[1] \o <<Sep>> \o Display(Tail(p))

\* Ord for Path: component by component, each component byte-wise
PathLess(p, q) ==
    \/ /\ Len(p) < Len(q)
       /\ \A k \in 1..Len(p) : p[k] = q[k]
    \/ \E k \in 1..Min(Len(p), Len(q)) :
          /\ BytesLess(p[k], q[k])
          /\ \A m \in 1..(k - 1) : p[m] = q[m]

RowPaths == [k \in 1..Len(rows) |-> rows[k].path]

VisibleFiles == {p \in tree : \A k \in 1..Len(p) : ~is_hidden(p[k])}

---------------------------------------------------------------------------
(* Properties *)

C2_SecondRunFetchesNothing ==
    run = "second" => fetched = <<>>

\* C3: the fraction of every listed file is 1 - k/n, n the number of pull
\* requests processed (the first 100 descriptors), k the number of them whose
\* TouchedLineMap has the file as a key.
C3_FractionIsOneMinusKOverN ==
    \A k \in 1..Len(rows) :
        SameF64(rows[k].fraction, RefFraction(rows[k].path))

\* C3 witness: two pull requests, one touching b.txt, one touching nothing:
\* a.txt is listed with 1.0 and b.txt with 0.5.
C3_Witness ==
    /\ Len(data) = 2
    /\ Len(rows) = 2
    /\ rows[1].path = <<NameATxt>> /\ SameF64(rows[1].fraction, <<1, 1>>)
    /\ rows[2].path = <<NameBTxt>> /\ SameF64(rows[2].fraction, <<1, 2>>)

\* C4: the fraction of every listed file lies in [0,1], is 1.0 for a file no
\* pull request touches and 0.0 for a file every pull request touches, for
\* every lookup a run can build, the empty one included.
C4_FractionInUnitInterval ==
    \A k \in 1..Len(rows) :
        LET f == rows[k].fraction
            touching == {n \in DOMAIN pr_lines_lookup :
                            rows[k].path \in DOMAIN pr_lines_lookup[n]}
        IN  /\ f # NaN
            /\ 0 <= f[1] /\ f[1] <= f[2]
            /\ (touching = {} => f[1] = f[2])
            /\ (touching = DOMAIN pr_lines_lookup /\ touching # {} => f[1] = 0)

\* C5: both loops enumerate the first 100 descriptors in input order, nothing
\* past the 100th is fetched or diffed, and after the aggregation the lookup
\* has exactly one TouchedLineMap per processed pull request, under its number.
C5_SameFirstHundred ==
    /\ IsPrefix(decided, FirstNumbers)
    /\ IsPrefix(diffed, FirstNumbers)
    /\ SeqRange(fetched) \subseteq SeqRange(FirstNumbers)
    /\ DOMAIN pr_lines_lookup \subseteq SeqRange(diffed)
    /\ pc \in {"render", "write", "done"} =>
          /\ decided = FirstNumbers
          /\ diffed = FirstNumbers
          /\ DOMAIN pr_lines_lookup = SeqRange(decided)
          /\ Cardinality(DOMAIN pr_lines_lookup) = Len(FirstHundred)

\* C5 witness: a run over a list longer than 100 has finished.
C5_Witness ==
    /\ Len(data) > TakeLimit
    /\ pc = "done"
    /\ Len(fetched) = TakeLimit
    /\ Cardinality(DOMAIN pr_lines_lookup) = TakeLimit

\* C6: the document has exactly one row for every file under the root none of
\* whose path components starts with '.', and no other row, for every root.
C6_RowsAreTheVisibleFiles ==
    (walked /\ walkSkipped = {}) =>
        /\ SeqRange(RowPaths) = VisibleFiles
        /\ Len(rows) = Cardinality(VisibleFiles)

\* C7 as stated: of any two rows, the one whose path string is lexically
\* smaller comes first.
C7_SortedByPathString ==
    \A i, j \in 1..Len(rows) :
        i < j => BytesLess(Display(rows[i].path), Display(rows[j].path))

\* C7, amended: the rows are in the walker's order, which is the order of the
\* paths compared component by component (the entries of each directory
\* sorted by file name).
C7_SortedByComponents ==
    \A i, j \in 1..Len(rows) :
        i < j => PathLess(rows[i].path, rows[j].path)

\* C7 witness: directory a with file z, beside file a.txt: a/z is listed first.
C7_Witness ==
    /\ Len(rows) = 2
    /\ rows[1].path = <<NameA, NameZ>>
    /\ rows[2].path = <<NameATxt>>

\* C8 as stated: once any step has failed, a walk error included, nothing more
\* is fetched or diffed and prmap.html is not written.
C8_EveryErrorAborts ==
    [][((failedStep \/ walkSkipped # {}) /\ run' = run) =>
          (fetched' = fetched /\ diffed' = diffed /\ written' = written)]_vars

\* C8, amended: once a step has returned an error to main (a fetch exiting
\* non-zero, a branch tip, commit, tree, base branch, merge base or diff that
\* cannot be resolved, a failed write), nothing more is fetched, decided,
\* diffed, inserted, rendered or written by that run.
C8_ReturnedErrorsAbort ==
    [][(failedStep /\ run' = run) =>
          UNCHANGED <<fetched, decided, diffed, pr_lines_lookup, rows, written,
                      branches>>]_vars

\* C8 witness: the fetch of the first of two pull requests exited non-zero.
C8_Witness ==
    /\ Len(data) = 2
    /\ pc = "failed"
    /\ failedStep
    /\ Len(fetched) = 1
    /\ decided = <<>>

\* C9: the TouchedLineMap stored for a pull request is the reference map of
\* its hunk list: the keys are the paths other than Cargo.lock with a hunk of
\* non-zero old-side line count, each value the concatenation in hunk order of
\* [old_start, old_start + old_line_count).
C9_TouchedLineMapIsReference ==
    \A n \in DOMAIN pr_lines_lookup :
        pr_lines_lookup[n] = RefMap(diffs[n])

\* C9 witness: a diff with a hunk at 10 of 3 lines in b.txt and a non-empty
\* hunk in Cargo.lock was stored as b.txt -> 10, 11, 12 alone.
C9_Witness ==
    \E n \in DOMAIN pr_lines_lookup :
        /\ DOMAIN pr_lines_lookup[n] = {<<NameBTxt>>}
        /\ pr_lines_lookup[n][<<NameBTxt>>] = <<10, 11, 12>>
        /\ \E k \in 1..Len(diffs[n]) :
              /\ diffs[n][k].path = <<NameCargoLock>>
              /\ diffs[n][k].old_lines = 3

\* C10: no diff computation starts before the fetch-or-skip decision of every
\* one of the first 100 pull requests is complete, and the walk and the write
\* start only after the TouchedLineMap of each of them is in the lookup.
C10_StagesSequential ==
    /\ diffed # <<>> => (decided = FirstNumbers /\ pc # "sync")
    /\ (walked \/ written) =>
          /\ DOMAIN pr_lines_lookup = SeqRange(FirstNumbers)
          /\ diffed = FirstNumbers
          /\ pc \notin {"sync", "agg", "foreach"}

\* C10 witness: a run that fetched both of two pull requests has finished.
C10_Witness ==
    /\ Len(data) = 2
    /\ Len(fetched) = 2
    /\ written
    /\ pc = "done"

====
